---- MODULE Spec2Model ----
(***************************************************************************)
(* A model of f1-dashboard.py: one Streamlit script run ("render pass") of *)
(* main() per user interaction.  The pass evaluates the sidebar, then      *)
(* either loads a session from the data provider and renders the four      *)
(* views in tab order, or shows the welcome screen.  The data provider     *)
(* (FastF1) is an environment: every call to it may return or raise.       *)
(***************************************************************************)
EXTENDS Integers, Sequences, FiniteSets

\* ------------------------------------------------------------------ bounds

\* Largest number of rows of a session's lap table.
MaxLaps == 3

\* The calendar year of the run (datetime.now().year).
CurrentYear == 2019

\* ------------------------------------------------------- program constants

FirstYear == 2018

SessionTypes == <<"Race", "Qualifying", "Practice 1", "Practice 2",
                  "Practice 3", "Sprint", "Sprint Qualifying">>

DefaultEvent == "Monaco"

FallbackColor == "#808080"

\* ------------------------------------------------------ environment domains

DriverIds == {"1", "44"}
LapNumbers == {1, 2, 3}
LapTimes == {88, 90}
Compounds == {"SOFT", "HARD"}
Stints == {1, 2}
Positions == {1, 2}

\* Event names the user may type into the free-text Grand Prix input.
TypedEvents == {DefaultEvent, "Monza"}

\* Schedules the provider may return: an empty table or a list of events.
Schedules == {<<>>, <<"Bahrain Grand Prix", "Monaco Grand Prix">>}

\* -------------------------------------------------------------- sequences

Range(s) == {s[i] : i \in 1..Len(s)}

Min(S) == CHOOSE x \in S : \A y \in S : x <= y

Max(S) == CHOOSE x \in S : \A y \in S : y <= x

RECURSIVE SortedSeq(_)
SortedSeq(S) == IF S = {} THEN <<>> ELSE <<Min(S)>> \o SortedSeq(S \ {Min(S)})

RECURSIVE Concat(_)
Concat(ss) == IF ss = <<>> THEN <<>> ELSE Head(ss) \o Concat(Tail(ss))

\* Sequences without repetition over S, of length at most n.
DistinctSeqs(S, n) ==
    UNION {{s \in [1..k -> S] : \A i, j \in 1..k : i # j => s[i] # s[j]} : k \in 0..n}

\* The order of first appearance of the values of s.
RECURSIVE Unique(_)
Unique(s) ==
    IF s = <<>> THEN <<>>
    ELSE LET r == Unique(SubSeq(s, 1, Len(s) - 1))
         IN IF s[Len(s)] \in Range(r) THEN r ELSE Append(r, s[Len(s)])

\* The reorderings of the sequence s.
RowOrders(s) ==
    {[i \in 1..Len(s) |-> s[f[i]]] :
        f \in {g \in [1..Len(s) -> 1..Len(s)] : \A i, j \in 1..Len(s) : i # j => g[i] # g[j]}}

\* ------------------------------------------------------------ the provider

\* A session: `handle` is FALSE for None, `loaded` says session.load() returned;
\* session.drivers and the rows of session.laps.
NoSession == [handle |-> FALSE, loaded |-> FALSE, drivers |-> <<>>, laps |-> <<>>]

\* What a lap row holds besides its driver and lap number.
LapData(times, compounds, stints, positions) ==
    [LapTime : times, Compound : compounds, Stint : stints, Position : positions]

LapRow(key, data) ==
    [DriverNumber |-> key[1], LapNumber |-> key[2], LapTime |-> data.LapTime,
     Compound |-> data.Compound, Stint |-> data.Stint, Position |-> data.Position]

\* The (driver, lap number) pairs of a lap table of k rows, one row per pair, in
\* any row order, for drivers of `drivers`.
LapKeys(drivers, k) ==
    {s \in [1..k -> Range(drivers) \X LapNumbers] : \A i, j \in 1..k : i # j => s[i] # s[j]}

DriverLists == DistinctSeqs(DriverIds, Cardinality(DriverIds))

\* The loaded session of driver list `drivers` whose lap table has the rows
\* keys[i] with the data d[i].
Session(drivers, keys, d) ==
    [handle |-> TRUE, loaded |-> TRUE, drivers |-> drivers,
     laps |-> [i \in 1..Len(keys) |-> LapRow(keys[i], d[i])]]

\* session.get_driver(driver)['Abbreviation'] and the laps' 'Driver' column.
Abbreviation(d) == CASE d = "1" -> "VER" [] d = "44" -> "HAM" [] OTHER -> "UNK"

\* fastf1.plotting.get_driver_color(abb, session)
DriverColor(abb) == CASE abb = "VER" -> "#0600ef" [] abb = "HAM" -> "#00d2be" [] OTHER -> "#ffffff"

\* laps.pick_driver(driver)
PickDriver(laps, d) == SelectSeq(laps, LAMBDA l : l.DriverNumber = d)

\* A faulty pick_fastest: the first row, whatever its lap time.
PickFastestFirstRow(laps) == IF laps = <<>> THEN <<>> ELSE <<laps[1]>>

\* laps.pick_fastest(): the first row of minimal lap time, as a sequence of at
\* most one lap (empty for an empty table).
PickFastest(laps) ==
    IF laps = <<>> THEN <<>>
    ELSE LET m == Min({laps[i].LapTime : i \in 1..Len(laps)})
             i == Min({k \in 1..Len(laps) : laps[k].LapTime = m})
         IN <<laps[i]>>

\* A faulty guard: it looks at the driver list, not at the lap table.
LapsEmptyByDrivers(s) == s.drivers = <<>>

\* hasattr(session, 'laps') and not session.laps.empty, negated
LapsEmpty(s) == s.laps = <<>>

\* ------------------------------------------------------------ lap-time view

\* default=drivers[:3] if len(drivers) >= 3 else drivers
DefaultSelection(drivers) == IF Len(drivers) >= 3 THEN SubSeq(drivers, 1, 3) ELSE drivers

\* One line series per selected driver that has laps, in selection order.
LapTimeTraces(s, selected) ==
    LET w == SelectSeq(selected, LAMBDA d : PickDriver(s.laps, d) # <<>>)
    IN [i \in 1..Len(w) |->
          LET dl == PickDriver(s.laps, w[i])
          IN [name |-> Abbreviation(w[i]),
              x |-> [k \in 1..Len(dl) |-> dl[k].LapNumber],
              y |-> [k \in 1..Len(dl) |-> dl[k].LapTime]]]

DriverFastest(s, d) == PickFastest(PickDriver(s.laps, d))

\* The fastest_laps list: one row per selected driver whose fastest lap is not empty.
FastestLaps(s, selected) ==
    LET w == SelectSeq(selected, LAMBDA d : DriverFastest(s, d) # <<>>)
    IN [i \in 1..Len(w) |->
          LET f == DriverFastest(s, w[i])[1]
          IN [Driver |-> Abbreviation(w[i]), LapTime |-> f.LapTime,
              LapNumber |-> f.LapNumber, Compound |-> f.Compound]]

\* fastest_df.sort_values('LapTime'): pandas' default sort is not stable, so rows
\* of equal lap time may come out in either order.
SortValues(rows) ==
    {p \in RowOrders(rows) :
        \A i, j \in 1..Len(p) : i < j => p[i].LapTime <= p[j].LapTime}

\* ------------------------------------------------------------ telemetry view

TelemetryTraces(d1, d2) ==
    LET tr(d, ch, c, r) == [name |-> Abbreviation(d), channel |-> ch, color |-> c, row |-> r]
    IN <<tr(d1, "Speed", "red", 1), tr(d2, "Speed", "blue", 1),
         tr(d1, "Throttle", "red", 2), tr(d2, "Throttle", "blue", 2),
         tr(d1, "Brake", "red", 3), tr(d2, "Brake", "blue", 3)>>

\* A faulty guard: one driver is let through.
TooFewDriversOffByOne(drivers) == Len(drivers) < 1

\* if len(drivers) < 2: warning, return
TooFewDrivers(drivers) == Len(drivers) < 2

\* A faulty view: telemetry fetched again for each of the six traces.
TelemetryFetchesPerTrace(f) ==
    CASE f = "pick" -> 0 [] f = "telemetry1" -> 1 [] f = "telemetry2" -> 2 [] OTHER -> 6

\* get_telemetry() calls made before the try block is left at failure point f.
TelemetryFetches(f) ==
    CASE f = "pick" -> 0 [] f = "telemetry1" -> 1 [] OTHER -> 2

\* ------------------------------------------------------ position-change view

LookupOutcomes == {"ok", "color_raises", "name_raises"}

\* A faulty loop: a driver whose lookup raised is skipped.
PositionDriversSkipFailed(s, lk) ==
    SelectSeq(s.drivers, LAMBDA d : Len(PickDriver(s.laps, d)) # 0 /\ lk[d] = "ok")

\* The drivers that get a series: those of session.drivers with at least one lap.
PositionDrivers(s, lk) == SelectSeq(s.drivers, LAMBDA d : Len(PickDriver(s.laps, d)) # 0)

\* The inner try: the color and the name, or gray and the laps' abbreviation
\* when get_driver_color or get_driver raises.
LookupColor(outcome, abb) == IF outcome = "ok" THEN DriverColor(abb) ELSE FallbackColor

PositionTraces(s, lk) ==
    LET w == PositionDrivers(s, lk)
    IN [i \in 1..Len(w) |->
          LET dl == PickDriver(s.laps, w[i])
              abb == Abbreviation(dl[1].DriverNumber)
              name == IF lk[w[i]] = "ok" THEN Abbreviation(w[i]) ELSE abb
          IN [driver |-> w[i],
              name |-> name,
              color |-> LookupColor(lk[w[i]], abb),
              x |-> [k \in 1..Len(dl) |-> dl[k].LapNumber],
              y |-> [k \in 1..Len(dl) |-> dl[k].Position],
              hover |-> [k \in 1..Len(dl) |->
                           <<name, dl[k].LapNumber, dl[k].Position,
                             dl[k].Compound, dl[k].Stint>>]]]

\* -------------------------------------------------------- tire-strategy view

\* A faulty aggregate: 'Compound': 'last'.
GroupCompoundLast(g) == g[Len(g)].Compound

\* 'Compound': 'first'
GroupCompound(g) == g[1].Compound

\* 'LapNumber': ['min', 'max', 'count']
GroupStartLap(g) == Min({g[i].LapNumber : i \in 1..Len(g)})

GroupEndLap(g) == Max({g[i].LapNumber : i \in 1..Len(g)})

GroupLapCount(g) == Len(g)

\* driver_laps.groupby('Stint').agg(...).reset_index(): one row per stint id, in
\* ascending order of the stint id.
StintRows(dl) ==
    LET ids == SortedSeq({dl[i].Stint : i \in 1..Len(dl)})
    IN [k \in 1..Len(ids) |->
          LET g == SelectSeq(dl, LAMBDA l : l.Stint = ids[k])
          IN [Stint |-> ids[k], StartLap |-> GroupStartLap(g), EndLap |-> GroupEndLap(g),
              LapCount |-> GroupLapCount(g), Compound |-> GroupCompound(g)]]

\* stints_data: the rows of every driver with laps, in session.drivers order.
StintsData(s) ==
    LET w == SelectSeq(s.drivers, LAMBDA d : PickDriver(s.laps, d) # <<>>)
    IN Concat([i \in 1..Len(w) |->
                 LET rows == StintRows(PickDriver(s.laps, w[i]))
                 IN [k \in 1..Len(rows) |->
                       [Driver |-> Abbreviation(w[i]), Stint |-> rows[k].Stint,
                        StartLap |-> rows[k].StartLap, EndLap |-> rows[k].EndLap,
                        LapCount |-> rows[k].LapCount, Compound |-> rows[k].Compound]]])

\* One marker trace per compound, in the order compounds first appear.
TireTraces(table) ==
    LET cs == Unique([i \in 1..Len(table) |-> table[i].Compound])
    IN [c \in 1..Len(cs) |->
          LET rows == SelectSeq(table, LAMBDA r : r.Compound = cs[c])
          IN [name |-> cs[c],
              x |-> [k \in 1..Len(rows) |-> rows[k].StartLap],
              y |-> [k \in 1..Len(rows) |-> rows[k].Driver]]]

\* ------------------------------------------------------------------- state

VARIABLES
    pc,            \* where the script run stands: "idle" between runs, "sidebar", "main", "tab1".."tab4"
    trigger,       \* the user interaction that started the current (or last) run
    button,        \* what st.button("Load Session Data") returned in this run
    load_data,     \* st.session_state.load_data
    selected,      \* selected_year, selected_event, session_type
    schedule,      \* whether get_event_schedule raised, and the table get_available_events returned
    gp_control,    \* the widget offered for the Grand Prix
    toggles,       \* the four "Show ..." checkboxes
    widget_state,  \* the frontend's values of the views' driver widgets (<<>>: none yet)
    session,       \* the local `session` of main()
    main_area,     \* what the main area shows
    errors,        \* the st.error messages of main() and load_session_data
    calls,         \* calls made to the data provider in this run
    load_outcome,  \* how the provider answered this run's load: "none" while not asked
    lapView, telView, posView, tireView   \* what each view put on the page

vars == <<pc, trigger, button, load_data, selected, schedule, gp_control, toggles,
          widget_state, session, main_area, errors, calls, load_outcome,
          lapView, telView, posView, tireView>>

\* self.years: range(2018, now.year + 1), reversed
Years == [i \in 1..(CurrentYear - FirstYear + 1) |-> CurrentYear - i + 1]

NoLapView == [status |-> "not_run", selected |-> <<>>, traces |-> <<>>, fastest |-> <<>>]
NoTelView == [status |-> "not_run", traces |-> <<>>]
NoPosView == [status |-> "not_run", traces |-> <<>>, lookups |-> <<>>]
NoTireView == [status |-> "not_run", table |-> <<>>, traces |-> <<>>]

\* The sidebar's selections once main() reads them no more.
NoSelection == [year |-> 0, event |-> "", session_type |-> ""]
NoSchedule == [raised |-> FALSE, table |-> <<>>]

NoWidgets == [ms |-> <<>>, d1 |-> <<>>, d2 |-> <<>>]
NoCalls == [schedule |-> 0, get_session |-> 0, load |-> 0, telemetry |-> 0]

Toggles == [lap : BOOLEAN, tel : BOOLEAN, pos : BOOLEAN, tire : BOOLEAN]

\* The sessions the provider returns in the interactive specification: for each
\* driver list, no laps, one lap for the first driver only, or one lap for each.
UiSessions ==
    UNION {{Session(drivers, [i \in 1..n |-> <<drivers[i], 1>>],
                    [i \in 1..n |-> [LapTime |-> 90, Compound |-> "SOFT", Stint |-> 1,
                                     Position |-> i]]) :
              n \in 0..Len(drivers)} : drivers \in DriverLists}

\* What the provider does with get_session and session.load.
PartialSession == [handle |-> TRUE, loaded |-> FALSE, drivers |-> <<>>, laps |-> <<>>]

LoadOutcomes ==
    {[kind |-> "get_session_raises", session |-> NoSession],
     [kind |-> "load_raises", session |-> PartialSession]}
    \cup {[kind |-> "ok", session |-> s] : s \in UiSessions}

\* What the provider does with get_event_schedule.
ScheduleOutcomes ==
    {[raises |-> TRUE, table |-> <<>>]} \cup {[raises |-> FALSE, table |-> t] : t \in Schedules}

\* A faulty loader: the session object is returned even if load() raised.
LoadSessionDataPartial(o) == o.session

\* F1Dashboard.load_session_data: the session, or None when either call raised.
LoadSessionData(o) == IF o.kind = "ok" THEN o.session ELSE NoSession

\* The st.error of load_session_data's except branch.
LoadErrors(o) == IF o.kind = "ok" THEN {} ELSE {"Error loading session data"}

\* F1Dashboard.get_available_events: the schedule, or an empty table when the call raised.
GetAvailableEvents(o) == IF o.raises THEN <<>> ELSE o.table

\* The except branch of get_available_events reports nothing.
\* A faulty except branch: the failure is reported with st.error.
CatalogErrorsShown(o) == IF o.raises THEN {"Error loading schedule"} ELSE {}

CatalogErrors(o) == {}

\* if not schedule.empty: selectbox over the event names, else a text input
GpControl(sched) == IF sched # <<>> THEN "selectbox" ELSE "text_input"

EventChoices(sched) == IF GpControl(sched) = "selectbox" THEN Range(sched) ELSE TypedEvents

\* A faulty flag: the else branch that clears it is missing.
SetLoadDataSticky(pressed, old) == pressed \/ old

\* if st.button(...): load_data = True else: load_data = False
SetLoadData(pressed, old) == pressed

\* The driver widgets the last run put on the page.
LapWidgetShown == lapView.status \in {"rendered", "warning_no_selection", "raised"}
TelWidgetsShown == telView.status \in {"chart", "error"}

\* The frontend keeps a widget's value only while the widget stays on the page.
KeptWidgets ==
    [ms |-> IF LapWidgetShown THEN widget_state.ms ELSE <<>>,
     d1 |-> IF TelWidgetsShown THEN widget_state.d1 ELSE <<>>,
     d2 |-> IF TelWidgetsShown THEN widget_state.d2 ELSE <<>>]

\* ----------------------------------------------------------------- actions

\* A user interaction `trig` makes the frontend start a script run, handing it
\* the driver widgets' values `ws`; the run starts from a blank page and unbound locals.
StartRun(trig, ws) ==
    /\ pc = "idle"
    /\ trigger' = trig
    /\ widget_state' = ws
    /\ selected' = NoSelection
    /\ schedule' = NoSchedule
    /\ gp_control' = "none"
    /\ calls' = NoCalls
    /\ load_outcome' = "none"
    /\ session' = NoSession
    /\ main_area' = "none"
    /\ errors' = {}
    /\ lapView' = NoLapView
    /\ telView' = NoTelView
    /\ posView' = NoPosView
    /\ tireView' = NoTireView
    /\ pc' = "sidebar"
    /\ UNCHANGED <<button, load_data, toggles>>

\* The user opens the page or changes a sidebar control.
Rerun == StartRun("rerun", KeptWidgets)

\* The user presses "Load Session Data" on a page an earlier run has drawn.
PressButton == trigger # "none" /\ StartRun("button", KeptWidgets)

\* The user changes the lap-time view's driver multiselect.
ChangeLapDrivers ==
    /\ LapWidgetShown
    /\ \E sel \in DistinctSeqs(Range(session.drivers), Len(session.drivers)) :
          /\ sel # lapView.selected
          /\ StartRun("lap_drivers", [KeptWidgets EXCEPT !.ms = <<sel>>])

\* The user changes one of the telemetry view's driver selectboxes.
ChangeTelemetryDriver ==
    /\ TelWidgetsShown
    /\ \E d \in Range(session.drivers) :
          \/ StartRun("telemetry_driver", [KeptWidgets EXCEPT !.d1 = <<d>>])
          \/ StartRun("telemetry_driver", [KeptWidgets EXCEPT !.d2 = <<d>>])

\* main() up to the end of the sidebar: the schedule fetch, the controls and
\* the load_data flag.
Sidebar ==
    /\ pc = "sidebar"
    /\ \E year \in Range(Years), o \in ScheduleOutcomes,
          st \in Range(SessionTypes), tg \in Toggles :
          LET sched == GetAvailableEvents(o)
          IN \E ev \in EventChoices(sched) :
                /\ errors' = CatalogErrors(o)
                /\ schedule' = [raised |-> o.raises, table |-> sched]
                /\ gp_control' = GpControl(sched)
                /\ selected' = [year |-> year, event |-> ev, session_type |-> st]
                /\ toggles' = tg
    /\ calls' = [calls EXCEPT !.schedule = @ + 1]
    /\ button' = (trigger = "button")
    /\ load_data' = SetLoadData(trigger = "button", load_data)
    /\ pc' = "main"
    /\ UNCHANGED <<trigger, widget_state, session, main_area, load_outcome,
                   lapView, telView, posView, tireView>>

\* main(), load_data false: show_welcome_screen().
ShowWelcome ==
    /\ pc = "main"
    /\ ~load_data
    /\ main_area' = "welcome"
    /\ selected' = NoSelection
    /\ pc' = "idle"
    /\ UNCHANGED <<trigger, button, load_data, schedule, gp_control, toggles,
                   widget_state, session, errors, calls, load_outcome,
                   lapView, telView, posView, tireView>>

\* main(), load_data true: load_session_data, then the header of
\* display_session_data or the failure message.
LoadSession ==
    /\ pc = "main"
    /\ load_data
    /\ \E o \in LoadOutcomes :
          LET s == LoadSessionData(o)
          IN /\ session' = s
             /\ load_outcome' = o.kind
             /\ selected' = NoSelection
             /\ calls' = [calls EXCEPT !.get_session = @ + 1,
                                       !.load = @ + (IF o.kind = "get_session_raises" THEN 0 ELSE 1)]
             /\ IF s.handle
                THEN /\ errors' = LoadErrors(o)
                     /\ main_area' = "dashboard"
                     /\ pc' = "tab1"
                ELSE /\ errors' = LoadErrors(o) \cup {"Failed to load session data"}
                     /\ main_area' = "load_failed"
                     /\ pc' = "idle"
    /\ UNCHANGED <<trigger, button, load_data, schedule, gp_control, toggles,
                   widget_state, lapView, telView, posView, tireView>>

\* with tab1: display_lap_times.  `raises`: a provider call of the view raises;
\* nothing in the view catches it and the run ends there.
Tab1 ==
    /\ pc = "tab1"
    /\ \E raises \in BOOLEAN :
          IF ~toggles.lap
          THEN lapView' = [NoLapView EXCEPT !.status = "skipped"] /\ pc' = "tab2"
          ELSE IF LapsEmpty(session)
          THEN lapView' = [NoLapView EXCEPT !.status = "warning_no_data"] /\ pc' = "tab2"
          ELSE LET sel == IF widget_state.ms = <<>> THEN DefaultSelection(session.drivers)
                          ELSE widget_state.ms[1]
               IN IF sel = <<>>
                  THEN /\ lapView' = [NoLapView EXCEPT !.status = "warning_no_selection"]
                       /\ pc' = "tab2"
                  ELSE IF raises
                  THEN /\ lapView' = [NoLapView EXCEPT !.status = "raised", !.selected = sel]
                       /\ pc' = "idle"
                  ELSE /\ \E sorted \in SortValues(FastestLaps(session, sel)) :
                             lapView' = [status |-> "rendered", selected |-> sel,
                                         traces |-> LapTimeTraces(session, sel),
                                         fastest |-> sorted]
                       /\ pc' = "tab2"
    /\ UNCHANGED <<trigger, button, load_data, selected, schedule, gp_control, toggles,
                   widget_state, session, main_area, errors, calls, load_outcome,
                   telView, posView, tireView>>

TelemetryFailurePoints == {"none", "pick", "telemetry1", "telemetry2", "plot"}

\* with tab2: display_telemetry_comparison.  `f`: the provider call of the try
\* block that raises, if any; the except branch reports it in the view.
Tab2 ==
    /\ pc = "tab2"
    /\ \E f \in TelemetryFailurePoints :
          IF ~toggles.tel
          THEN telView' = [NoTelView EXCEPT !.status = "skipped"] /\ UNCHANGED calls
          ELSE IF LapsEmpty(session)
          THEN telView' = [NoTelView EXCEPT !.status = "warning_no_data"] /\ UNCHANGED calls
          ELSE IF TooFewDrivers(session.drivers)
          THEN telView' = [NoTelView EXCEPT !.status = "warning_need_two"] /\ UNCHANGED calls
          ELSE LET d1 == IF widget_state.d1 = <<>> THEN session.drivers[1]
                         ELSE widget_state.d1[1]
                   d2 == IF widget_state.d2 = <<>>
                         THEN session.drivers[Min({1, Len(session.drivers) - 1}) + 1]
                         ELSE widget_state.d2[1]
               IN /\ calls' = [calls EXCEPT !.telemetry = @ + TelemetryFetches(f)]
                  /\ telView' = IF f = "none"
                                THEN [status |-> "chart", traces |-> TelemetryTraces(d1, d2)]
                                ELSE [status |-> "error", traces |-> <<>>]
    /\ pc' = "tab3"
    /\ UNCHANGED <<trigger, button, load_data, selected, schedule, gp_control, toggles,
                   widget_state, session, main_area, errors, load_outcome,
                   lapView, posView, tireView>>

\* with tab3: display_position_changes.  `raises`: a provider call outside the
\* inner try raises; `lk`: how each driver's color and name lookup ends.
Tab3 ==
    /\ pc = "tab3"
    /\ \E raises \in BOOLEAN :
          IF ~toggles.pos
          THEN posView' = [NoPosView EXCEPT !.status = "skipped"]
          ELSE IF LapsEmpty(session)
          THEN posView' = [NoPosView EXCEPT !.status = "warning_no_data"]
          ELSE IF raises
          THEN posView' = [NoPosView EXCEPT !.status = "error"]
          ELSE \E lk \in [Range(session.drivers) -> LookupOutcomes] :
                  posView' = [status |-> "chart", traces |-> PositionTraces(session, lk),
                              lookups |-> [i \in 1..Len(session.drivers) |->
                                             lk[session.drivers[i]]]]
    /\ pc' = "tab4"
    /\ UNCHANGED <<trigger, button, load_data, selected, schedule, gp_control, toggles,
                   widget_state, session, main_area, errors, calls, load_outcome,
                   lapView, telView, tireView>>

\* with tab4: display_tire_strategy.  `raises`: a provider call of the view
\* raises; nothing in the view catches it.
Tab4 ==
    /\ pc = "tab4"
    /\ \E raises \in BOOLEAN :
          IF ~toggles.tire
          THEN tireView' = [NoTireView EXCEPT !.status = "skipped"]
          ELSE IF LapsEmpty(session)
          THEN tireView' = [NoTireView EXCEPT !.status = "warning_no_data"]
          ELSE IF raises
          THEN tireView' = [NoTireView EXCEPT !.status = "raised"]
          ELSE LET table == StintsData(session)
               IN tireView' = IF table # <<>>
                              THEN [status |-> "rendered", table |-> table,
                                    traces |-> TireTraces(table)]
                              ELSE [NoTireView EXCEPT !.status = "nothing"]
    /\ pc' = "idle"
    /\ UNCHANGED <<trigger, button, load_data, selected, schedule, gp_control, toggles,
                   widget_state, session, main_area, errors, calls, load_outcome,
                   lapView, telView, posView>>

\* ------------------------------------------------------------ specifications

Init ==
    /\ pc = "idle"
    /\ trigger = "none"
    /\ button = FALSE
    /\ load_data = FALSE
    /\ selected = NoSelection
    /\ schedule = NoSchedule
    /\ gp_control = "none"
    /\ toggles = [lap |-> TRUE, tel |-> TRUE, pos |-> TRUE, tire |-> TRUE]
    /\ widget_state = NoWidgets
    /\ session = NoSession
    /\ main_area = "none"
    /\ errors = {}
    /\ calls = NoCalls
    /\ load_outcome = "none"
    /\ lapView = NoLapView
    /\ telView = NoTelView
    /\ posView = NoPosView
    /\ tireView = NoTireView

Next ==
    \/ Rerun
    \/ PressButton
    \/ ChangeLapDrivers
    \/ ChangeTelemetryDriver
    \/ Sidebar
    \/ ShowWelcome
    \/ LoadSession
    \/ Tab1
    \/ Tab2
    \/ Tab3
    \/ Tab4

Spec == Init /\ [][Next]_vars

\* The state display_session_data is in when it reaches tab `tab` for session
\* `s`, the run having loaded `s` at the press of the button, with the views'
\* checkboxes `tg` and the driver widgets holding `ws`.
AtTab(tab, s, tg, ws) ==
    /\ pc = tab
    /\ trigger = "button"
    /\ button = TRUE
    /\ load_data = TRUE
    /\ selected = NoSelection
    /\ schedule = NoSchedule
    /\ gp_control = "text_input"
    /\ toggles = tg
    /\ widget_state = ws
    /\ session = s
    /\ main_area = "dashboard"
    /\ errors = {}
    /\ calls = [schedule |-> 1, get_session |-> 1, load |-> 1, telemetry |-> 0]
    /\ load_outcome = "ok"
    /\ lapView = IF tab = "tab1" THEN NoLapView ELSE [NoLapView EXCEPT !.status = "skipped"]
    /\ telView = IF tab \in {"tab1", "tab2"} THEN NoTelView
                 ELSE [NoTelView EXCEPT !.status = "skipped"]
    /\ posView = IF tab \in {"tab1", "tab2", "tab3"} THEN NoPosView
                 ELSE [NoPosView EXCEPT !.status = "skipped"]
    /\ tireView = NoTireView

\* The values the lap-time view's multiselect can hold when its options are `drivers`.
Selections(drivers) ==
    {<<>>} \cup {<<sel>> : sel \in DistinctSeqs(Range(drivers), Len(drivers))}

\* display_lap_times on every session of the bounded provider, with every
\* value the multiselect can hold.
InitLapTimes ==
    \E drivers \in DriverLists, k \in 0..MaxLaps :
       \E keys \in LapKeys(drivers, k), d \in [1..k -> LapData(LapTimes, Compounds, {1}, {1})] :
          \E ms \in Selections(drivers) :
             AtTab("tab1", Session(drivers, keys, d),
                   [lap |-> TRUE, tel |-> TRUE, pos |-> TRUE, tire |-> TRUE],
                   [NoWidgets EXCEPT !.ms = ms])

SpecLapTimes == InitLapTimes /\ [][Tab1]_vars

\* display_telemetry_comparison on sessions of every driver list, with the two
\* selectboxes holding any driver.
InitTelemetry ==
    \E drivers \in DriverLists, k \in 0..MaxLaps :
       \E keys \in LapKeys(drivers, k), d \in [1..k -> LapData({90}, {"SOFT"}, {1}, {1})] :
          \E d1, d2 \in {<<>>} \cup {<<x>> : x \in DriverIds} :
             AtTab("tab2", Session(drivers, keys, d),
                   [lap |-> FALSE, tel |-> TRUE, pos |-> TRUE, tire |-> TRUE],
                   [NoWidgets EXCEPT !.d1 = d1, !.d2 = d2])

SpecTelemetry == InitTelemetry /\ [][Tab2]_vars

\* display_position_changes on every session of the bounded provider.
InitPositions ==
    \E drivers \in DriverLists, k \in 0..MaxLaps :
       \E keys \in LapKeys(drivers, k), d \in [1..k -> LapData({90}, {"SOFT"}, {1}, Positions)] :
          AtTab("tab3", Session(drivers, keys, d),
                [lap |-> FALSE, tel |-> FALSE, pos |-> TRUE, tire |-> TRUE], NoWidgets)

SpecPositions == InitPositions /\ [][Tab3]_vars

\* display_tire_strategy on every session of the bounded provider.
InitTires ==
    \E drivers \in DriverLists, k \in 0..MaxLaps :
       \E keys \in LapKeys(drivers, k), d \in [1..k -> LapData({90}, Compounds, Stints, {1})] :
          AtTab("tab4", Session(drivers, keys, d),
                [lap |-> FALSE, tel |-> FALSE, pos |-> FALSE, tire |-> TRUE], NoWidgets)

SpecTires == InitTires /\ [][Tab4]_vars

\* -------------------------------------------------------------- properties

Views == <<lapView, telView, posView, tireView>>
Shown == <<toggles.lap, toggles.tel, toggles.pos, toggles.tire>>

\* The sidebar of the current (or last) run has been evaluated.
SidebarDone == trigger # "none" /\ pc # "sidebar"

\* C1: a provider failure while one of the four views is rendered is caught in
\* that view (no view lets the exception escape), and once the run is over every
\* view whose checkbox is on has been rendered.
C1_ViewFailureContained ==
    /\ \A v \in 1..4 : Views[v].status # "raised"
    /\ (pc = "idle" /\ main_area = "dashboard") =>
          \A v \in 1..4 : Shown[v] => Views[v].status # "not_run"

\* C2: one press of the button makes at most one get_session and one
\* session.load call, and exactly one load attempt once the load step is over;
\* no load is attempted without the press; the session held is None or fully
\* loaded, never partial; and when either call raised, None is returned, both
\* error messages are shown, no view is rendered and the run is over.
C2_LoadAllOrNothing ==
    /\ calls.get_session <= 1 /\ calls.load <= 1
    /\ calls.get_session = 1 => button
    /\ (SidebarDone /\ pc # "main" /\ button) => calls.get_session = 1
    /\ session.handle => session.loaded /\ load_outcome = "ok"
    /\ load_outcome \in {"get_session_raises", "load_raises"} =>
          /\ session = NoSession
          /\ errors = {"Error loading session data", "Failed to load session data"}
          /\ main_area = "load_failed"
          /\ \A v \in 1..4 : Views[v].status = "not_run"
          /\ pc = "idle"
          /\ calls.load = (IF load_outcome = "load_raises" THEN 1 ELSE 0)

C2_Witness ==
    load_outcome = "load_raises" /\ pc = "idle" /\ calls.get_session = 1 /\ calls.load = 1

TotalFetches == calls.schedule + calls.get_session + calls.load + calls.telemetry

\* C3 as stated: a render pass issues at most one fetch to the provider,
\* counting get_event_schedule, get_session, session.load and get_telemetry.
C3_AtMostOneFetch == TotalFetches <= 1

\* C3 amended: every render pass calls get_event_schedule exactly once; a pass
\* not started by the button issues no other fetch; a pass started by the
\* button also calls get_session once, session.load at most once and
\* get_telemetry at most twice, and telemetry only after a successful load.
C3_FetchesPerPass ==
    /\ calls.schedule = (IF SidebarDone THEN 1 ELSE 0)
    /\ calls.get_session <= 1
    /\ calls.load <= calls.get_session
    /\ calls.telemetry <= 2
    /\ calls.telemetry > 0 => load_outcome = "ok"
    /\ (SidebarDone /\ ~button) => TotalFetches = 1
    /\ (SidebarDone /\ button /\ pc # "main") => calls.get_session = 1

C3_Witness == pc = "idle" /\ button /\ TotalFetches = 5 /\ telView.status = "chart"

\* C4: for a loaded session whose lap table is empty, a view that has been
\* rendered shows the no-data warning and no chart and has not raised, and at
\* the end of the run every view whose checkbox is on has shown that warning.
C4_EmptyLapsWarn ==
    (session.loaded /\ session.laps = <<>>) =>
        /\ \A v \in 1..4 :
              /\ Views[v].status \in {"not_run", "skipped", "warning_no_data"}
              /\ Views[v].traces = <<>>
              /\ (pc = "idle" /\ Shown[v]) => Views[v].status = "warning_no_data"
        /\ lapView.fastest = <<>>
        /\ tireView.table = <<>>
        /\ calls.telemetry = 0

C4_Witness ==
    /\ pc = "idle" /\ session.loaded /\ session.laps = <<>> /\ Len(session.drivers) = 2
    /\ \A v \in 1..4 : Views[v].status = "warning_no_data"

\* The rows of the lap table of driver d, and of d's stint st.
LapsOf(d) == {i \in 1..Len(session.laps) : session.laps[i].DriverNumber = d}
StintLaps(d, st) == {i \in LapsOf(d) : session.laps[i].Stint = st}
DriverIndex(abb) == CHOOSE i \in 1..Len(session.drivers) : Abbreviation(session.drivers[i]) = abb

\* C5: the stint table of the tire-strategy view has exactly one row per driver
\* with laps and distinct stint id of that driver; the row's StartLap is the
\* least and EndLap the greatest lap number of the stint, LapCount its number
\* of laps and Compound the compound of its first lap in the lap table; and the
\* rows follow the order of session.drivers.
C5_StintAggregation ==
    tireView.status = "rendered" =>
        LET t == tireView.table
            groups == {g \in Range(session.drivers) \X Stints : StintLaps(g[1], g[2]) # {}}
        IN /\ Len(t) = Cardinality(groups)
           /\ \A g \in groups :
                 \E k \in 1..Len(t) :
                    LET rows == StintLaps(g[1], g[2])
                    IN /\ t[k].Driver = Abbreviation(g[1])
                       /\ t[k].Stint = g[2]
                       /\ t[k].StartLap = Min({session.laps[i].LapNumber : i \in rows})
                       /\ t[k].EndLap = Max({session.laps[i].LapNumber : i \in rows})
                       /\ t[k].LapCount = Cardinality(rows)
                       /\ t[k].Compound = session.laps[Min(rows)].Compound
           /\ \A k, m \in 1..Len(t) :
                 k < m => DriverIndex(t[k].Driver) <= DriverIndex(t[m].Driver)

\* Two drivers' stints, the first driver's stint running over two laps that
\* come latest-first in the lap table and differ in compound.
C5_Witness ==
    /\ tireView.status = "rendered"
    /\ Len(tireView.table) = 2
    /\ tireView.table[1].Driver # tireView.table[2].Driver
    /\ tireView.table[1].LapCount = 2
    /\ session.laps[1].DriverNumber = session.drivers[1]
    /\ session.laps[2].DriverNumber = session.drivers[1]
    /\ session.laps[1].LapNumber > session.laps[2].LapNumber
    /\ session.laps[1].Compound # session.laps[2].Compound

\* C6: the fastest-lap table of the lap-time view has exactly one row per
\* selected driver with laps; the row's lap time is the least of that driver's
\* lap times and its lap number and compound are those of a lap of that driver
\* with that time; and the rows are in ascending order of lap time.
C6_FastestLapTable ==
    lapView.status = "rendered" =>
        LET f == lapView.fastest
            with == {d \in Range(lapView.selected) : LapsOf(d) # {}}
        IN /\ Len(f) = Cardinality(with)
           /\ \A d \in with :
                 \E k \in 1..Len(f) :
                    /\ f[k].Driver = Abbreviation(d)
                    /\ f[k].LapTime = Min({session.laps[i].LapTime : i \in LapsOf(d)})
                    /\ \E i \in LapsOf(d) :
                          /\ session.laps[i].LapTime = f[k].LapTime
                          /\ session.laps[i].LapNumber = f[k].LapNumber
                          /\ session.laps[i].Compound = f[k].Compound
           /\ \A k, m \in 1..Len(f) : k < m => f[k].LapTime <= f[m].LapTime

\* The first selected driver's fastest lap is not the first of two laps and is
\* slower than the second selected driver's lap, so the sort reorders the rows.
C6_Witness ==
    /\ lapView.status = "rendered"
    /\ Len(lapView.selected) = 2
    /\ Len(lapView.fastest) = 2
    /\ lapView.fastest[1].Driver = Abbreviation(lapView.selected[2])
    /\ lapView.fastest[1].LapTime < lapView.fastest[2].LapTime
    /\ \E i, j \in LapsOf(lapView.selected[2]) :
          i < j /\ session.laps[j].LapTime < session.laps[i].LapTime

\* C7: the position chart has exactly one series per driver of session.drivers
\* with at least one lap and none for a driver without laps; a driver whose
\* color lookup raised still has its series, colored '#808080'.
C7_PositionSeries ==
    posView.status = "chart" =>
        LET t == posView.traces
        IN /\ \A k \in 1..Len(t) : t[k].driver \in Range(session.drivers)
           /\ \A i \in 1..Len(session.drivers) :
                 LET d == session.drivers[i]
                     mine == {k \in 1..Len(t) : t[k].driver = d}
                 IN IF LapsOf(d) = {}
                    THEN mine = {}
                    ELSE /\ Cardinality(mine) = 1
                         /\ posView.lookups[i] = "color_raises" =>
                               \A k \in mine : t[k].color = "#808080"

\* A chart for two drivers, one without laps, the other's color lookup failing.
C7_Witness ==
    /\ posView.status = "chart"
    /\ Len(session.drivers) = 2
    /\ Len(posView.traces) = 1
    /\ \E i \in 1..2 :
          /\ posView.traces[1].driver = session.drivers[i]
          /\ posView.lookups[i] = "color_raises"
          /\ posView.traces[1].color = "#808080"

\* C8: with fewer than 2 drivers in the session, the telemetry view, once
\* rendered, shows a warning, has fetched no telemetry and drawn no chart,
\* whatever the two selectboxes hold.
C8_TelemetryNeedsTwo ==
    (Len(session.drivers) < 2 /\ telView.status \notin {"not_run", "skipped"}) =>
        /\ telView.status \in {"warning_no_data", "warning_need_two"}
        /\ telView.traces = <<>>
        /\ calls.telemetry = 0

C8_Witness ==
    /\ telView.status = "warning_need_two"
    /\ Len(session.drivers) = 1
    /\ widget_state.d1 # <<>> /\ widget_state.d2 # <<>>
    /\ widget_state.d1 # widget_state.d2

\* C9: when get_event_schedule raised, get_available_events returned an empty
\* table, the sidebar showed no error and the Grand Prix control is the
\* free-text input; the event list is offered exactly when the schedule is
\* not empty.
C9_CatalogDegrades ==
    SidebarDone =>
        /\ schedule.raised =>
              /\ schedule.table = <<>>
              /\ gp_control = "text_input"
              /\ pc = "main" => errors = {}
              /\ errors \subseteq {"Error loading session data", "Failed to load session data"}
        /\ gp_control = "selectbox" <=> schedule.table # <<>>
        /\ gp_control \in {"selectbox", "text_input"}
        /\ (pc = "main" /\ gp_control = "selectbox") => selected.event \in Range(schedule.table)

C9_Witness ==
    pc = "main" /\ schedule.raised /\ gp_control = "text_input" /\ selected.event = "Monza"

\* C10: in every run the load_data flag equals what the button returned in
\* that run; a load is attempted in exactly the runs started by the button; a
\* run started otherwise (a driver widget of a view included) ends on the
\* welcome screen with no view rendered; and no run starts with a session.
C10_LoadOnlyOnPress ==
    /\ SidebarDone =>
          /\ button = (trigger = "button")
          /\ load_data = button
          /\ pc # "main" => (load_outcome # "none" <=> button)
          /\ (pc = "idle" /\ ~button) =>
                /\ main_area = "welcome"
                /\ \A v \in 1..4 : Views[v].status = "not_run"
                /\ session = NoSession
    /\ pc \in {"sidebar", "main"} => session = NoSession /\ load_outcome = "none"

\* The run after the user changed the lap-time view's driver selection.
C10_Witness ==
    /\ trigger = "lap_drivers" /\ pc = "idle" /\ main_area = "welcome"
    /\ widget_state.ms # <<>>

====
